---- MODULE Spec2Model ----
(***************************************************************************)
(* A model of the logtracer / nodetracer trace-graph runtime:              *)
(*   - the graph model (Node, Edge, TraceGraph) of logtracer/graph.py,     *)
(*   - the context slots of logtracer/context.py,                          *)
(*   - the HTTP instrumentation adapters of nodetracer/instrumentation,    *)
(*   - Span and Tracer, whose modules (core/span.py, core/tracer.py) are   *)
(*     imported by the adapters and tests; they are modelled from the      *)
(*     design document (sections 4.3 and 4.4).                             *)
(***************************************************************************)
EXTENDS Integers, Sequences, FiniteSets, TLC

VARIABLES
    nodes,              \* TraceGraph.nodes: id -> Node
    edges,              \* TraceGraph.edges: sequence of Edge
    _sequence_counter,  \* TraceGraph._sequence_counter
    op,                 \* the last direct graph operation and its outcome
    tpc,                \* thread -> position inside next_sequence_number
    value,              \* thread -> local `value` of next_sequence_number
    tmp,                \* thread -> the operand loaded by `+= 1`
    allocated,          \* the values calls have taken so far, in the order taken
    _current_trace,     \* execution unit -> value of the _current_trace slot
    _current_node,      \* execution unit -> value of the _current_node slot
    stack,              \* execution unit -> its open scopes, innermost last
    pc,                 \* execution unit -> "idle" | "call" | "return"
    call,               \* execution unit -> the HTTP request it is making
    hist,               \* node id -> how the Span bound to it was opened and closed
    installed,          \* the wrappers installed on Session.request, innermost first
    tracer,             \* the Tracer's trace: state, end_time, token, saves
    excluded_seen,      \* a request was left untraced by exclude_urls in this trace
    payload,            \* the JSON document at hand, and the trace it was made from
    loaded,             \* the outcome of trace_from_json on that document
    started,            \* execution unit -> how it was started, None before it is
    wrapped,            \* the callable returned by propagate_context and its calls
    _settings,          \* config._settings, the global Settings object
    stores,             \* how many storage backends configure has constructed
    configured          \* the last call of configure: arguments, outcome, settings before

graphVars == <<nodes, edges, _sequence_counter>>
seqVars == <<tpc, value, tmp, allocated>>
ctxVars == <<_current_trace, _current_node>>
unitVars == <<stack, pc, call, hist, excluded_seen>>
httpVars == <<_current_trace, _current_node, stack, pc, call, hist, installed, tracer,
              excluded_seen>>

jsonVars == <<payload, loaded>>
propVars == <<started, wrapped>>
cfgVars == <<_settings, stores, configured>>
auxVars == <<jsonVars, propVars, cfgVars>>

None == "None"

(***************************************************************************)
(* Bounds of the model.                                                    *)
(***************************************************************************)
MaxNodes == 3
MaxEdges == 1
MaxAllocs == 3
MaxGraphSpans == 1
MaxFrames == 2
MaxRuns == 2
MaxStores == 2

MaxInstalls == 2

Threads == {"t1", "t2"}
Units == {"u1", "u2"}

\* the contexts context variables have values in: one per execution unit, and
\* the one copied by propagate_context
Contexts == Units \cup {"copied"}
TraceId == "T1"

(***************************************************************************)
(* graph.py: NodeStatus, Node, Edge, TraceGraph                            *)
(***************************************************************************)
NodeStatus == {"pending", "running", "completed", "failed", "cancelled"}

TerminalStatus == {"completed", "failed", "cancelled"}

EmptyMap == [k \in {} |-> None]

\* Node(...): the fields given by the caller, every other field at its default.
Node(id, sequence_number, name, node_type, parent_id, depth) ==
    [id |-> id, sequence_number |-> sequence_number, name |-> name,
     node_type |-> node_type, status |-> "pending", parent_id |-> parent_id,
     depth |-> depth, start_time |-> None, end_time |-> None,
     input_data |-> EmptyMap, output_data |-> EmptyMap,
     error |-> None, error_type |-> None]

Edge(source_id, target_id) == [source_id |-> source_id, target_id |-> target_id]

\* add_node that keeps the node already stored under the id
add_node_keeping_first(ns, node) ==
    [k \in DOMAIN ns \cup {node.id} |-> IF k \in DOMAIN ns THEN ns[k] ELSE node]

\* TraceGraph.add_node: self.nodes[node.id] = node
add_node(ns, node) ==
    [k \in DOMAIN ns \cup {node.id} |-> IF k = node.id THEN node ELSE ns[k]]

add_edge_unchecked_target(ns, es, edge) ==
    IF edge.source_id \notin DOMAIN ns
    THEN [error |-> "Unknown edge source node id", edges |-> es]
    ELSE [error |-> None, edges |-> Append(es, edge)]

add_edge_append_first(ns, es, edge) ==
    IF edge.source_id \notin DOMAIN ns
    THEN [error |-> "Unknown edge source node id", edges |-> Append(es, edge)]
    ELSE IF edge.target_id \notin DOMAIN ns
    THEN [error |-> "Unknown edge target node id", edges |-> Append(es, edge)]
    ELSE [error |-> None, edges |-> Append(es, edge)]

\* TraceGraph.add_edge: the error raised (None when it returns) and the edge
\* list it leaves.
add_edge(ns, es, edge) ==
    IF edge.source_id \notin DOMAIN ns
    THEN [error |-> "Unknown edge source node id", edges |-> es]
    ELSE IF edge.target_id \notin DOMAIN ns
    THEN [error |-> "Unknown edge target node id", edges |-> es]
    ELSE [error |-> None, edges |-> Append(es, edge)]

(***************************************************************************)
(* TraceGraph.next_sequence_number, statement by statement, as run by      *)
(* preemptively scheduled threads sharing one trace.  The method holds no  *)
(* lock; a thread switch may fall between any two of its steps.            *)
(***************************************************************************)
\* value = self._sequence_counter
SeqRead(t) ==
    /\ tpc[t] = "idle"
    /\ Len(allocated) < MaxAllocs
    /\ value' = [value EXCEPT ![t] = _sequence_counter]
    /\ allocated' = Append(allocated, _sequence_counter)
    /\ tpc' = [tpc EXCEPT ![t] = "read"]
    /\ UNCHANGED <<nodes, edges, _sequence_counter, op, tmp, httpVars, auxVars>>

\* self._sequence_counter += 1: load the operand
SeqLoad(t) ==
    /\ tpc[t] = "read"
    /\ tmp' = [tmp EXCEPT ![t] = _sequence_counter]
    /\ tpc' = [tpc EXCEPT ![t] = "loaded"]
    /\ UNCHANGED <<nodes, edges, _sequence_counter, op, value, allocated, httpVars, auxVars>>

\* self._sequence_counter += 1: store the sum
SeqStore(t) ==
    /\ tpc[t] = "loaded"
    /\ _sequence_counter' = tmp[t] + 1
    /\ tpc' = [tpc EXCEPT ![t] = "stored"]
    /\ UNCHANGED <<nodes, edges, op, value, tmp, allocated, httpVars, auxVars>>

\* return value
SeqReturn(t) ==
    /\ tpc[t] = "stored"
    /\ tpc' = [tpc EXCEPT ![t] = "idle"]
    /\ UNCHANGED <<nodes, edges, _sequence_counter, op, value, tmp, allocated, httpVars, auxVars>>

(***************************************************************************)
(* context.py: the two context slots, one value of each per execution      *)
(* unit.  A slot holds None or an object; a node is held by its id.  A     *)
(* token remembers the value the slot had before the push.                 *)
(***************************************************************************)
get_current_trace(u) == _current_trace[u]

get_current_node(u) == _current_node[u]

push_current_trace(current, trace) == [slot |-> trace, token |-> [old_value |-> current]]

push_current_node(current, node) == [slot |-> node, token |-> [old_value |-> current]]

reset_current_trace_to_none(current, token) == None

reset_current_trace(current, token) == token.old_value

reset_current_node_not_restoring(current, token) == current

reset_current_node(current, token) == token.old_value

(***************************************************************************)
(* Values of the traced work.                                              *)
(***************************************************************************)
\* What the wrapped request may raise.  ConnectionError derives from
\* Exception; KeyboardInterrupt derives from BaseException only.
Exceptions == {"ConnectionError", "KeyboardInterrupt"}

\* isinstance(exc, Exception); TypeError is what re.search raises when it is
\* given a URL that is not a string
IsException(exc) == exc \in {"ConnectionError", "TypeError"}

str(exc) ==
    CASE exc = "ConnectionError" -> "Connection refused"
      [] exc = "TypeError" -> "expected string or bytes-like object"
      [] OTHER -> ""

type_name(exc) == exc

(***************************************************************************)
(* Span (core/span.py), from the design document, section 4.3.             *)
(***************************************************************************)
Merge(d, fields) ==
    [k \in DOMAIN d \cup DOMAIN fields |-> IF k \in DOMAIN fields THEN fields[k] ELSE d[k]]

IdOf(i) == ToString(i)

NodeIds == {IdOf(i) : i \in 1..MaxNodes}

\* uuid4().hex: an id no node of the trace has yet
FreshId(ns) ==
    IdOf(CHOOSE i \in 1..MaxNodes :
            /\ IdOf(i) \notin DOMAIN ns
            /\ \A j \in 1..(i - 1) : IdOf(j) \in DOMAIN ns)

HasFreshId(ns) == \E i \in NodeIds : i \notin DOMAIN ns

\* TraceGraph.next_sequence_number run without interruption (one flow of
\* control, or cooperative tasks, which are not switched inside it).
next_sequence_number(counter) == [value |-> counter, counter |-> counter + 1]

\* Span(trace, name, node_type): allocates the sequence number, takes parent
\* and depth from the current node, inserts the pending node.
Span_init(ns, counter, current, name, node_type) ==
    LET seq == next_sequence_number(counter)
        id == FreshId(ns)
        depth == IF current = None THEN 0 ELSE ns[current].depth + 1
    IN  [id |-> id,
         counter |-> seq.counter,
         nodes |-> add_node(ns, Node(id, seq.value, name, node_type, current, depth))]

\* Span.__enter__: the node's part (the push is made by the caller's action)
Span_enter(ns, n) == [ns EXCEPT ![n].status = "running", ![n].start_time = "t"]

Span_input(ns, n, fields) == [ns EXCEPT ![n].input_data = Merge(@, fields)]

Span_output(ns, n, fields) == [ns EXCEPT ![n].output_data = Merge(@, fields)]

Span_set_status(ns, n, status) == [ns EXCEPT ![n].status = status]

\* Span.__exit__(exc_type, exc_val, exc_tb): exc is None when no error is passed
Span_exit(ns, n, exc, overridden) ==
    [ns EXCEPT ![n].end_time = "t",
               ![n].status = IF exc # None THEN "failed"
                             ELSE IF overridden THEN @ ELSE "completed",
               ![n].error = IF exc # None THEN str(exc) ELSE @,
               ![n].error_type = IF exc # None THEN type_name(exc) ELSE @]

(***************************************************************************)
(* The scopes a unit has open.                                             *)
(***************************************************************************)
Frame(kind, node, token, ctx_before) ==
    [kind |-> kind, node |-> node, token |-> token, overridden |-> FALSE,
     ctx_before |-> ctx_before]

NoToken == [old_value |-> None]

Top(st) == st[Len(st)]

Pop(st) == SubSeq(st, 1, Len(st) - 1)

\* the node of the innermost open Span of a stack of scopes (a Span that is
\* constructed but not entered yet, kind "new", is not open)
RECURSIVE Enclosing(_)
Enclosing(st) ==
    IF st = <<>> THEN None
    ELSE IF Top(st).node # None /\ Top(st).kind # "new" THEN Top(st).node
    ELSE Enclosing(Pop(st))

Opened(u, n, before) ==
    [k \in DOMAIN hist \cup {n} |->
        IF k = n
        THEN [unit |-> u, enclosing |-> Enclosing(stack[u]), ctx_before |-> before,
              closed |-> FALSE, raised |-> FALSE, restored |-> FALSE]
        ELSE hist[k]]

Closed(h, n, raised, restored) ==
    [h EXCEPT ![n].closed = TRUE, ![n].raised = raised, ![n].restored = restored]

NoOutcome == [kind |-> None, response |-> None, exc |-> None]

NoCall ==
    [method |-> None, url |-> None, trace |-> None, ctx_before |-> None,
     layer |-> 0, depth |-> 0, orig_calls |-> <<>>, outcome |-> NoOutcome,
     result |-> NoOutcome, added |-> 0, spans |-> <<>>]

(***************************************************************************)
(* Direct use of the graph: trace.add_node(node), trace.add_edge(edge)     *)
(***************************************************************************)
\* nodes a caller builds by hand: Node takes depth and parent_id as given
HandIds == {IdOf(1), IdOf(2)}

HandNodes ==
    {Node(id, 0, <<"n">>, "custom", pd[1], pd[2]) :
        id \in HandIds, pd \in {<<None, 0>>, <<None, 1>>, <<IdOf(1), 1>>}}

EdgeArgs == {Edge(s, t) : s \in HandIds \cup {IdOf(3)}, t \in HandIds \cup {IdOf(3)}}

AddNodeOp(node) ==
    /\ nodes' = add_node(nodes, node)
    /\ op' = [name |-> "add_node", error |-> None]
    /\ UNCHANGED <<edges, _sequence_counter, seqVars, auxVars, httpVars>>

AddEdgeOp(edge) ==
    /\ LET r == add_edge(nodes, edges, edge)
       IN  /\ Len(r.edges) <= MaxEdges
           /\ edges' = r.edges
           /\ op' = [name |-> "add_edge", error |-> r.error]
    /\ UNCHANGED <<nodes, _sequence_counter, seqVars, auxVars, httpVars>>

(***************************************************************************)
(* with Span(...) as span: ... in user code                                *)
(***************************************************************************)
\* Span(...) and __enter__.  explicit: the trace is passed to the
\* constructor; otherwise it is taken from the current context.
SpanOpen(u, explicit) ==
    /\ pc[u] = "idle"
    /\ explicit \/ get_current_trace(u) # None
    /\ HasFreshId(nodes)
    /\ LET before == get_current_node(u)
           s == Span_init(nodes, _sequence_counter, before, <<"span">>, "custom")
           pushed == push_current_node(before, s.id)
       IN  /\ nodes' = Span_enter(s.nodes, s.id)
           /\ _sequence_counter' = s.counter
           /\ _current_node' = [_current_node EXCEPT ![u] = pushed.slot]
           /\ stack' = [stack EXCEPT ![u] = Append(@, Frame("span", s.id, pushed.token, before))]
           /\ hist' = Opened(u, s.id, before)
    /\ UNCHANGED <<edges, op, seqVars, auxVars, _current_trace, pc, call, installed, tracer,
                   excluded_seen>>

\* leaving the with block, normally (exc = None) or by an exception
SpanClose(u, exc) ==
    /\ pc[u] = "idle"
    /\ stack[u] # <<>>
    /\ Top(stack[u]).kind = "span"
    /\ LET f == Top(stack[u])
           restored == reset_current_node(get_current_node(u), f.token)
       IN  /\ nodes' = Span_exit(nodes, f.node, exc, f.overridden)
           /\ _current_node' = [_current_node EXCEPT ![u] = restored]
           /\ stack' = [stack EXCEPT ![u] = Pop(@)]
           /\ hist' = Closed(hist, f.node, exc # None, restored = f.ctx_before)
    /\ UNCHANGED <<edges, _sequence_counter, op, seqVars, auxVars, _current_trace, pc, call,
                   installed, tracer, excluded_seen>>

\* Spans opened on a hand-built trace that is passed to the constructor
GraphSpanOpen(u) ==
    /\ Cardinality(DOMAIN hist) < MaxGraphSpans
    /\ SpanOpen(u, TRUE)

(***************************************************************************)
(* Tracer (core/tracer.py), from the design document, section 4.4.         *)
(***************************************************************************)
\* with tracer.trace(name) as root: a new TraceGraph, pushed as the current
\* trace, and its root Span entered
TracerStart(u) ==
    /\ pc[u] = "idle"
    /\ tracer.state = "none"
    /\ stack[u] = <<>>
    /\ HasFreshId(nodes)
    /\ LET before == get_current_node(u)
           pushedTrace == push_current_trace(get_current_trace(u), TraceId)
           s == Span_init(nodes, _sequence_counter, None, <<"root">>, "custom")
           pushed == push_current_node(before, s.id)
       IN  /\ nodes' = Span_enter(s.nodes, s.id)
           /\ _sequence_counter' = s.counter
           /\ _current_trace' = [_current_trace EXCEPT ![u] = pushedTrace.slot]
           /\ _current_node' = [_current_node EXCEPT ![u] = pushed.slot]
           /\ stack' = [stack EXCEPT ![u] = Append(@, Frame("root", s.id, pushed.token, before))]
           /\ hist' = Opened(u, s.id, before)
           /\ tracer' = [tracer EXCEPT !.state = "open", !.token = pushedTrace.token]
    /\ UNCHANGED <<edges, op, seqVars, auxVars, pc, call, installed, excluded_seen>>

TracerExit_without_save(u, exc) ==
    /\ pc[u] = "idle"
    /\ stack[u] # <<>>
    /\ Top(stack[u]).kind = "root"
    /\ LET f == Top(stack[u])
           restored == reset_current_node(get_current_node(u), f.token)
       IN  /\ nodes' = Span_exit(nodes, f.node, exc, f.overridden)
           /\ _current_node' = [_current_node EXCEPT ![u] = restored]
           /\ _current_trace' =
                  [_current_trace EXCEPT ![u] = reset_current_trace(@, tracer.token)]
           /\ stack' = [stack EXCEPT ![u] = Pop(@)]
           /\ hist' = Closed(hist, f.node, exc # None, restored = f.ctx_before)
           /\ tracer' = [tracer EXCEPT !.state = "closed", !.end_time = "t"]
    /\ UNCHANGED <<edges, _sequence_counter, op, seqVars, auxVars, pc, call, installed,
                   excluded_seen>>

\* leaving the root scope: root Span exit, end_time stamped, current trace
\* restored, storage.save(trace)
TracerExit(u, exc) ==
    /\ pc[u] = "idle"
    /\ stack[u] # <<>>
    /\ Top(stack[u]).kind = "root"
    /\ LET f == Top(stack[u])
           restored == reset_current_node(get_current_node(u), f.token)
       IN  /\ nodes' = Span_exit(nodes, f.node, exc, f.overridden)
           /\ _current_node' = [_current_node EXCEPT ![u] = restored]
           /\ _current_trace' =
                  [_current_trace EXCEPT ![u] = reset_current_trace(@, tracer.token)]
           /\ stack' = [stack EXCEPT ![u] = Pop(@)]
           /\ hist' = Closed(hist, f.node, exc # None, restored = f.ctx_before)
           /\ tracer' = [tracer EXCEPT !.state = "closed", !.end_time = "t",
                                       !.saved = @ + 1]
    /\ UNCHANGED <<edges, _sequence_counter, op, seqVars, auxVars, pc, call, installed,
                   excluded_seen>>

(***************************************************************************)
(* instrumentation/base.py                                                 *)
(***************************************************************************)
Methods == {"get"}

Urls == {"/skip", "/trace", "/trace?token=s"}

\* str.upper on the methods above
upper(method) == IF method = "get" THEN "GET" ELSE method

\* a url_filter that redacts the query string of a URL
strip_query(url) == IF url = "/trace?token=s" THEN "/trace" ELSE url

\* url_filter values: None, a redacting callback, a callback that raises, a
\* callback that returns None instead of a string
UrlFilters == {None, "strip_query", "raising", "returns_none"}

\* re.search(pattern, url) on the patterns and URLs above: "(" does not
\* compile (re.error); a compiled pattern searched in a URL that is not a
\* string raises TypeError
re_search(pattern, url) ==
    CASE pattern = "(" -> "error"
      [] url = None -> "type_error"
      [] pattern = "skip" -> IF url = "/skip" THEN "match" ELSE "nomatch"
      [] pattern = "token=" -> IF url = "/trace?token=s" THEN "match" ELSE "nomatch"
      [] pattern = "trace$" -> IF url = "/trace" THEN "match" ELSE "nomatch"
      [] OTHER -> "nomatch"

\* exclude_urls values; None and [] take the same branch of _should_skip
\* (`not exclude_urls`) and are both the empty sequence
ExcludeLists == {<<>>, <<"skip">>, <<"token=">>, <<"(", "token=">>, <<"trace$">>}

\* the arguments instrument_requests is called with
Config(url_filter, exclude_urls) == [url_filter |-> url_filter, exclude_urls |-> exclude_urls]

Configs ==
    {Config(None, <<>>), Config(None, <<"skip">>), Config("strip_query", <<"token=">>),
     Config("raising", <<"(", "token=">>), Config("strip_query", <<"trace$">>)}

_span_name(method, url) == <<upper(method), url>>

RECURSIVE stop_at_bad_pattern(_, _, _)
stop_at_bad_pattern(url, exclude_urls, i) ==
    IF i > Len(exclude_urls) THEN FALSE
    ELSE IF re_search(exclude_urls[i], url) = "match" THEN TRUE
    ELSE IF re_search(exclude_urls[i], url) = "error" THEN FALSE
    ELSE stop_at_bad_pattern(url, exclude_urls, i + 1)

_should_skip_stopping_at_bad_pattern(url, exclude_urls) ==
    stop_at_bad_pattern(url, exclude_urls, 1)

\* the loop of _should_skip from the i-th pattern on
RECURSIVE should_skip_from(_, _, _)
should_skip_from(url, exclude_urls, i) ==
    IF i > Len(exclude_urls) THEN FALSE
    ELSE IF re_search(exclude_urls[i], url) = "match" THEN TRUE
    ELSE should_skip_from(url, exclude_urls, i + 1)

_should_skip(url, exclude_urls) ==
    IF exclude_urls = <<>> THEN FALSE ELSE should_skip_from(url, exclude_urls, 1)

\* the loop of _should_skip from the i-th pattern on leaves by an exception
\* other than re.error (which nothing in base.py catches)
RECURSIVE should_skip_raises_from(_, _, _)
should_skip_raises_from(url, exclude_urls, i) ==
    IF i > Len(exclude_urls) THEN FALSE
    ELSE IF re_search(exclude_urls[i], url) = "match" THEN FALSE
    ELSE IF re_search(exclude_urls[i], url) = "type_error" THEN TRUE
    ELSE should_skip_raises_from(url, exclude_urls, i + 1)

_should_skip_raises(url, exclude_urls) ==
    IF exclude_urls = <<>> THEN FALSE ELSE should_skip_raises_from(url, exclude_urls, 1)

_apply_url_filter(url, url_filter) ==
    IF url_filter = None THEN url
    ELSE IF url_filter = "raising" THEN url
    ELSE IF url_filter = "returns_none" THEN None
    ELSE strip_query(url)

NoSpan ==
    [span |-> FALSE, name |-> <<>>, node_type |-> None, input |-> EmptyMap,
     error |-> None]

HttpSpan(method, filtered_url) ==
    [span |-> TRUE, name |-> _span_name(method, filtered_url),
     node_type |-> "http_request",
     input |-> [method |-> upper(method), url |-> filtered_url],
     error |-> None]

\* create_http_span left by an exception: no Span, nothing returned
SpanError(exc) == [NoSpan EXCEPT !.error = exc]

create_http_span_without_trace_check(trace, method, url, cfg) ==
    LET filtered_url == _apply_url_filter(url, cfg.url_filter)
    IN  IF _should_skip_raises(filtered_url, cfg.exclude_urls) THEN SpanError("TypeError")
        ELSE IF _should_skip(filtered_url, cfg.exclude_urls) THEN NoSpan
        ELSE HttpSpan(method, filtered_url)

create_http_span_method_as_given(trace, method, url, cfg) ==
    LET filtered_url == _apply_url_filter(url, cfg.url_filter)
    IN  IF trace = None THEN NoSpan
        ELSE IF _should_skip_raises(filtered_url, cfg.exclude_urls)
        THEN SpanError("TypeError")
        ELSE IF _should_skip(filtered_url, cfg.exclude_urls) THEN NoSpan
        ELSE [HttpSpan(method, filtered_url) EXCEPT
                 !.input = [method |-> method, url |-> filtered_url]]

\* create_http_span: whether a Span is made, and the name, node type and
\* input fields it is made with; or the exception it is left by
create_http_span(trace, method, url, cfg) ==
    LET filtered_url == _apply_url_filter(url, cfg.url_filter)
    IN  IF trace = None THEN NoSpan
        ELSE IF _should_skip_raises(filtered_url, cfg.exclude_urls)
        THEN SpanError("TypeError")
        ELSE IF _should_skip(filtered_url, cfg.exclude_urls) THEN NoSpan
        ELSE HttpSpan(method, filtered_url)

\* record_http_response with the error marking "failed", replaced by one
\* that marks the node "pending"
record_http_response_marking_pending(ns, n, status_code, error) ==
    LET duration == [duration_ms |-> "rounded"]
        with_code == IF status_code # None
                     THEN Merge(duration, [status_code |-> status_code])
                     ELSE duration
        output == IF error # None THEN Merge(with_code, [error |-> error]) ELSE with_code
        marked == IF error # None THEN Span_set_status(ns, n, "pending") ELSE ns
    IN  [nodes |-> Span_output(marked, n, output), overridden |-> error # None]

\* record_http_response(span, status_code=..., duration_ms=..., error=...):
\* the node map it leaves and whether it called span.set_status
record_http_response(ns, n, status_code, error) ==
    LET duration == [duration_ms |-> "rounded"]
        with_code == IF status_code # None
                     THEN Merge(duration, [status_code |-> status_code])
                     ELSE duration
        output == IF error # None THEN Merge(with_code, [error |-> error]) ELSE with_code
        marked == IF error # None THEN Span_set_status(ns, n, "failed") ELSE ns
    IN  [nodes |-> Span_output(marked, n, output), overridden |-> error # None]

(***************************************************************************)
(* instrumentation/requests_.py: _patched_request.  The synchronous httpx  *)
(* wrapper and the asynchronous httpx and aiohttp wrappers have the same   *)
(* body; the asynchronous ones suspend where the original is awaited.      *)
(***************************************************************************)
Returned(response) == [kind |-> "return", response |-> response, exc |-> None]

Raised(exc) == [kind |-> "raise", response |-> None, exc |-> exc]

\* what the wrapped request may do: return a response, return None, raise
Outcomes == {Returned("response"), Returned(None)} \cup {Raised(e) : e \in Exceptions}

\* what `await _original_request(...)` of the asynchronous wrappers may do:
\* the same, or raise asyncio.CancelledError (a BaseException) when the task
\* is cancelled while it waits
AsyncOutcomes == Outcomes \cup {Raised("CancelledError")}

\* response.status_code of the response above
status_code_of(response) == "200"

\* the arguments _original_request is called with
original_args(method, url) == [method |-> method, url |-> url]

\* the try and except Exception blocks of _patched_request, once the wrapped
\* request has come back as `incoming`: what record_http_response leaves
\* (nothing is recorded for an exception that is not an Exception)
_patched_request_record(ns, f, incoming) ==
    IF incoming.kind = "return"
    THEN LET status_code == IF incoming.response # None
                            THEN status_code_of(incoming.response) ELSE None
         IN  record_http_response(ns, f.node, status_code, None)
    ELSE IF IsException(incoming.exc)
    THEN record_http_response(ns, f.node, None, str(incoming.exc))
    ELSE [nodes |-> ns, overridden |-> FALSE]

\* the finally block: span.__exit__(*exc_info), exc_info set only by the
\* except Exception block
_patched_request_span_exit(ns, f, incoming, overridden) ==
    Span_exit(ns, f.node,
              IF incoming.kind = "raise" /\ IsException(incoming.exc)
              THEN incoming.exc ELSE None,
              overridden)

\* the try / except Exception / finally of _patched_request as a whole: the
\* node map it leaves and what it hands to its caller
_patched_request_finish(ns, f, incoming) ==
    LET r == _patched_request_record(ns, f, incoming)
    IN  [nodes |-> _patched_request_span_exit(r.nodes, f, incoming,
                                              f.overridden \/ r.overridden),
         result |-> incoming]

\* nodes that requests already under way may still create
PendingLayers ==
    Cardinality({<<u, i>> \in Units \X (1..MaxNodes) :
                    pc[u] = "call" /\ call[u].trace # None /\ i <= call[u].layer})

CanCreate(k) == Cardinality(DOMAIN nodes) + PendingLayers + k <= MaxNodes

\* session.request resolved to the wrapper installed first, whatever was
\* installed after it
RequestStart_first_wrapper_only(u, method, url) ==
    /\ pc[u] = "idle"
    /\ CanCreate(IF get_current_trace(u) = None THEN 0 ELSE Len(installed))
    /\ pc' = [pc EXCEPT ![u] = "call"]
    /\ call' = [call EXCEPT ![u] =
                   [NoCall EXCEPT !.method = method, !.url = url,
                                  !.trace = get_current_trace(u),
                                  !.ctx_before = get_current_node(u),
                                  !.layer = IF installed = <<>> THEN 0 ELSE 1]]
    /\ UNCHANGED <<graphVars, op, seqVars, auxVars, ctxVars, stack, hist, installed, tracer,
                   excluded_seen>>

\* instrument_requests(url_filter=..., exclude_urls=...): the function that
\* is installed now becomes the _original_request of a new wrapper, which is
\* installed in its place
InstrumentRequestsOp(cfg) ==
    /\ \A u \in Units : pc[u] = "idle"
    /\ Len(installed) < MaxInstalls
    /\ installed' = Append(installed, cfg)
    /\ UNCHANGED <<graphVars, op, seqVars, auxVars, ctxVars, stack, pc, call, hist, tracer,
                   excluded_seen>>

\* user code calls session.request(method, url)
RequestStart(u, method, url) ==
    /\ pc[u] = "idle"
    /\ CanCreate(IF get_current_trace(u) = None THEN 0 ELSE Len(installed))
    /\ pc' = [pc EXCEPT ![u] = "call"]
    /\ call' = [call EXCEPT ![u] =
                   [NoCall EXCEPT !.method = method, !.url = url,
                                  !.trace = get_current_trace(u),
                                  !.ctx_before = get_current_node(u),
                                  !.layer = Len(installed)]]
    /\ UNCHANGED <<graphVars, op, seqVars, auxVars, ctxVars, stack, hist, installed, tracer,
                   excluded_seen>>

\* _patched_request up to the call of _original_request; an exception that
\* leaves create_http_span leaves _patched_request too
PatchedRequestEnter(u) ==
    /\ pc[u] = "call"
    /\ call[u].layer > 0
    /\ LET cfg == installed[call[u].layer]
           before == get_current_node(u)
           c == create_http_span(get_current_trace(u), call[u].method, call[u].url, cfg)
       IN  IF c.error # None
           THEN /\ pc' = [pc EXCEPT ![u] = "return"]
                /\ call' = [call EXCEPT ![u].result = Raised(c.error)]
                /\ UNCHANGED <<nodes, _sequence_counter, _current_node, stack, hist,
                               excluded_seen>>
           ELSE IF c.span
           THEN /\ HasFreshId(nodes)
                /\ LET s == Span_init(nodes, _sequence_counter, before, c.name, c.node_type)
                       pushed == push_current_node(before, s.id)
                   IN  /\ nodes' = Span_enter(Span_input(s.nodes, s.id, c.input), s.id)
                       /\ _sequence_counter' = s.counter
                       /\ _current_node' = [_current_node EXCEPT ![u] = pushed.slot]
                       /\ stack' = [stack EXCEPT ![u] =
                                       Append(@, Frame("http", s.id, pushed.token, before))]
                       /\ hist' = Opened(u, s.id, before)
                       /\ call' = [call EXCEPT ![u].layer = @ - 1, ![u].depth = @ + 1,
                                      ![u].spans = Append(@, s.id),
                                      ![u].added = @ + Cardinality(DOMAIN s.nodes)
                                                     - Cardinality(DOMAIN nodes)]
                       /\ UNCHANGED <<excluded_seen, pc>>
           ELSE /\ stack' = [stack EXCEPT ![u] = Append(@, Frame("pass", None, NoToken, before))]
                /\ call' = [call EXCEPT ![u].layer = @ - 1, ![u].depth = @ + 1]
                /\ excluded_seen' = (excluded_seen \/ get_current_trace(u) # None)
                /\ UNCHANGED <<nodes, _sequence_counter, _current_node, hist, pc>>
    /\ UNCHANGED <<edges, op, seqVars, auxVars, _current_trace, installed, tracer>>

\* the request function that was installed before any wrapper runs and
\* comes back with `outcome`
OriginalRequest(u, outcome) ==
    /\ pc[u] = "call"
    /\ call[u].layer = 0
    /\ pc' = [pc EXCEPT ![u] = "return"]
    /\ call' = [call EXCEPT ![u].orig_calls = Append(@, original_args(call[u].method, call[u].url)),
                            ![u].outcome = outcome,
                            ![u].result = outcome]
    /\ UNCHANGED <<graphVars, op, seqVars, auxVars, ctxVars, stack, hist, installed, tracer,
                   excluded_seen>>

\* _patched_request after _original_request has come back
PatchedRequestExit(u) ==
    /\ pc[u] = "return"
    /\ call[u].depth > 0
    /\ LET f == Top(stack[u])
       IN  IF f.kind = "http"
           THEN LET r == _patched_request_finish(nodes, f, call[u].result)
                    restored == reset_current_node(get_current_node(u), f.token)
                IN  /\ nodes' = r.nodes
                    /\ _current_node' = [_current_node EXCEPT ![u] = restored]
                    /\ hist' = Closed(hist, f.node, call[u].result.kind = "raise",
                                      restored = f.ctx_before)
                    /\ call' = [call EXCEPT ![u].depth = @ - 1, ![u].result = r.result]
           ELSE /\ call' = [call EXCEPT ![u].depth = @ - 1]
                /\ UNCHANGED <<nodes, _current_node, hist>>
    /\ stack' = [stack EXCEPT ![u] = Pop(@)]
    /\ UNCHANGED <<edges, _sequence_counter, op, seqVars, auxVars, _current_trace, pc, installed,
                   tracer, excluded_seen>>

\* _patched_request statement by statement: first the try / except blocks
\* (record_http_response), the Span still open ...
PatchedRequestRecord(u) ==
    /\ pc[u] = "return"
    /\ call[u].depth > 0
    /\ Top(stack[u]).kind = "http"
    /\ LET f == Top(stack[u])
           r == _patched_request_record(nodes, f, call[u].result)
       IN  /\ nodes' = r.nodes
           /\ stack' = [stack EXCEPT ![u] =
                           Append(Pop(@), [f EXCEPT !.kind = "http_recorded",
                                                    !.overridden = @ \/ r.overridden])]
    /\ UNCHANGED <<edges, _sequence_counter, op, seqVars, auxVars, ctxVars, pc, call, hist,
                   installed, tracer, excluded_seen>>

\* ... then the finally block (span.__exit__)
PatchedRequestSpanExit(u) ==
    /\ pc[u] = "return"
    /\ call[u].depth > 0
    /\ Top(stack[u]).kind = "http_recorded"
    /\ LET f == Top(stack[u])
           restored == reset_current_node(get_current_node(u), f.token)
       IN  /\ nodes' = _patched_request_span_exit(nodes, f, call[u].result, f.overridden)
           /\ _current_node' = [_current_node EXCEPT ![u] = restored]
           /\ hist' = Closed(hist, f.node, call[u].result.kind = "raise",
                             restored = f.ctx_before)
           /\ call' = [call EXCEPT ![u].depth = @ - 1]
    /\ stack' = [stack EXCEPT ![u] = Pop(@)]
    /\ UNCHANGED <<edges, _sequence_counter, op, seqVars, auxVars, _current_trace, pc, installed,
                   tracer, excluded_seen>>

\* a wrapper that made no Span returns what it got
PatchedRequestPass(u) ==
    /\ pc[u] = "return"
    /\ call[u].depth > 0
    /\ Top(stack[u]).kind = "pass"
    /\ PatchedRequestExit(u)

(***************************************************************************)
(* span = Span(...); ...; with span: ...; span.set_status(...) in user     *)
(* code, one statement at a time (core/span.py, design document 4.3).      *)
(***************************************************************************)
\* span = Span(name, node_type): the node is inserted pending
SpanCreateOp(u) ==
    /\ pc[u] = "idle"
    /\ get_current_trace(u) # None
    /\ HasFreshId(nodes)
    /\ stack[u] # <<>> /\ Top(stack[u]).kind # "new"
    /\ LET before == get_current_node(u)
           s == Span_init(nodes, _sequence_counter, before, <<"span">>, "custom")
       IN  /\ nodes' = s.nodes
           /\ _sequence_counter' = s.counter
           /\ stack' = [stack EXCEPT ![u] = Append(@, Frame("new", s.id, NoToken, before))]
           /\ hist' = Opened(u, s.id, before)
    /\ UNCHANGED <<edges, op, seqVars, auxVars, ctxVars, pc, call, installed, tracer,
                   excluded_seen>>

\* span.__enter__()
SpanEnterOp(u) ==
    /\ pc[u] = "idle"
    /\ stack[u] # <<>>
    /\ Top(stack[u]).kind = "new"
    /\ LET f == Top(stack[u])
           before == get_current_node(u)
           pushed == push_current_node(before, f.node)
       IN  /\ nodes' = Span_enter(nodes, f.node)
           /\ _current_node' = [_current_node EXCEPT ![u] = pushed.slot]
           /\ stack' = [stack EXCEPT ![u] =
                           Append(Pop(@), Frame("span", f.node, pushed.token, before))]
    /\ UNCHANGED <<edges, _sequence_counter, op, seqVars, auxVars, _current_trace, pc, call,
                   hist, installed, tracer, excluded_seen>>

\* the statuses set_status is called with: "cancelled" and "failed"
\* (design document 4.3; record_http_response passes NodeStatus.FAILED)
SetStatusArgs == {"cancelled", "failed"}

\* span.set_status(status) inside the scope
SpanSetStatusOp(u, status) ==
    /\ pc[u] = "idle"
    /\ stack[u] # <<>>
    /\ Top(stack[u]).kind = "span"
    /\ LET f == Top(stack[u])
       IN  /\ nodes' = Span_set_status(nodes, f.node, status)
           /\ stack' = [stack EXCEPT ![u] = Append(Pop(@), [f EXCEPT !.overridden = TRUE])]
    /\ UNCHANGED <<edges, _sequence_counter, op, seqVars, auxVars, ctxVars, pc, call, hist,
                   installed, tracer, excluded_seen>>

\* the caller has the result (or the exception) and goes on
CallerResumes(u) ==
    /\ pc[u] = "return"
    /\ call[u].depth = 0
    /\ pc' = [pc EXCEPT ![u] = "idle"]
    /\ call' = [call EXCEPT ![u] = NoCall]
    /\ UNCHANGED <<graphVars, op, seqVars, auxVars, ctxVars, stack, hist, installed, tracer,
                   excluded_seen>>

(***************************************************************************)
(* serializers.py: trace_to_json / trace_from_json, that is pydantic's     *)
(* model_dump_json and model_validate_json on the models of graph.py.      *)
(***************************************************************************)
\* the TraceGraph object: its fields and its private attribute
TraceGraph(ns, es, counter) ==
    [schema_version |-> "0.1.0", trace_id |-> TraceId, nodes |-> ns, edges |-> es,
     _sequence_counter |-> counter]

EmptyTrace == TraceGraph(EmptyMap, <<>>, 0)

\* JSON values
JNull == <<"null">>

JString(s) == <<"string", s>>

JNumber(n) == <<"number", n>>

JArray(items) == <<"array", items>>

\* values of the payload maps (dict[str, object]) that are not strings: a
\* tuple and a list, written as Python writes them
PyTuple == "(1, 2)"

PyList == "[1, 2]"

\* a value typed `object`: a tuple or a list becomes a JSON array, and a JSON
\* array is read back as a list
dump_object(v) == IF v \in {PyTuple, PyList} THEN JArray(<<1, 2>>) ELSE JString(v)

load_object(j) == IF j[1] = "array" THEN PyList ELSE j[2]

\* a value typed `str | None` or `datetime | None`
dump_optional(v) == IF v = None THEN JNull ELSE JString(v)

load_optional(j) == IF j[1] = "null" THEN None ELSE j[2]

dump_dict(d) == [k \in DOMAIN d |-> dump_object(d[k])]

load_dict(j) == [k \in DOMAIN j |-> load_object(j[k])]

\* the computed field duration_ms
duration_ms(start_time, end_time) ==
    IF start_time = None \/ end_time = None THEN JNull ELSE JNumber(0)

dump_node(node) ==
    [id |-> JString(node.id), sequence_number |-> JNumber(node.sequence_number),
     name |-> JString(node.name), node_type |-> JString(node.node_type),
     status |-> JString(node.status), parent_id |-> dump_optional(node.parent_id),
     depth |-> JNumber(node.depth), start_time |-> dump_optional(node.start_time),
     end_time |-> dump_optional(node.end_time),
     input_data |-> dump_dict(node.input_data),
     output_data |-> dump_dict(node.output_data),
     error |-> dump_optional(node.error), error_type |-> dump_optional(node.error_type),
     duration_ms |-> duration_ms(node.start_time, node.end_time)]

\* the computed field is not a field of the model and is ignored on input
load_node(j) ==
    [id |-> j.id[2], sequence_number |-> j.sequence_number[2], name |-> j.name[2],
     node_type |-> j.node_type[2], status |-> j.status[2],
     parent_id |-> load_optional(j.parent_id), depth |-> j.depth[2],
     start_time |-> load_optional(j.start_time), end_time |-> load_optional(j.end_time),
     input_data |-> load_dict(j.input_data), output_data |-> load_dict(j.output_data),
     error |-> load_optional(j.error), error_type |-> load_optional(j.error_type)]

dump_edge(edge) ==
    [source_id |-> JString(edge.source_id), target_id |-> JString(edge.target_id)]

load_edge(j) == Edge(j.source_id[2], j.target_id[2])

\* trace.model_dump_json(): the fields and the computed field; private
\* attributes are not dumped
trace_to_json(trace) ==
    [schema_version |-> JString(trace.schema_version),
     trace_id |-> JString(trace.trace_id),
     nodes |-> [k \in DOMAIN trace.nodes |-> dump_node(trace.nodes[k])],
     edges |-> [i \in 1..Len(trace.edges) |-> dump_edge(trace.edges[i])],
     duration_ms |-> JNull]

NoError == [message |-> None, id |-> None]

validate_edge_references_source_only(trace) ==
    LET bad == {k \in 1..Len(trace.edges) : trace.edges[k].source_id \notin DOMAIN trace.nodes}
    IN  IF bad = {} THEN NoError
        ELSE [message |-> "Edge source_id not found in nodes",
              id |-> trace.edges[CHOOSE k \in bad : \A m \in bad : k <= m].source_id]

\* the loop of validate_edge_references from the i-th edge on: the ValueError
\* it raises, NoError when it returns
RECURSIVE validate_edge_references_from(_, _, _)
validate_edge_references_from(ns, es, i) ==
    IF i > Len(es) THEN NoError
    ELSE IF es[i].source_id \notin DOMAIN ns
    THEN [message |-> "Edge source_id not found in nodes", id |-> es[i].source_id]
    ELSE IF es[i].target_id \notin DOMAIN ns
    THEN [message |-> "Edge target_id not found in nodes", id |-> es[i].target_id]
    ELSE validate_edge_references_from(ns, es, i + 1)

validate_edge_references(trace) ==
    validate_edge_references_from(trace.nodes, trace.edges, 1)

\* trace_from_json with the counter of the decoded trace set to the number
\* of decoded nodes instead of the default of the private attribute
trace_from_json_counting_nodes(doc) ==
    LET trace == [schema_version |-> doc.schema_version[2],
                  trace_id |-> doc.trace_id[2],
                  nodes |-> [k \in DOMAIN doc.nodes |-> load_node(doc.nodes[k])],
                  edges |-> [i \in 1..Len(doc.edges) |-> load_edge(doc.edges[i])],
                  _sequence_counter |-> Cardinality(DOMAIN doc.nodes)]
        error == validate_edge_references(trace)
    IN  IF error.message # None
        THEN [state |-> "failed", error |-> error, trace |-> EmptyTrace]
        ELSE [state |-> "loaded", error |-> NoError, trace |-> trace]


\* TraceGraph.model_validate_json(payload): the fields are read, the private
\* counter takes its default, the model validator runs; a ValueError of the
\* validator fails the validation and no object is returned
trace_from_json(doc) ==
    LET trace == [schema_version |-> doc.schema_version[2],
                  trace_id |-> doc.trace_id[2],
                  nodes |-> [k \in DOMAIN doc.nodes |-> load_node(doc.nodes[k])],
                  edges |-> [i \in 1..Len(doc.edges) |-> load_edge(doc.edges[i])],
                  _sequence_counter |-> 0]
        error == validate_edge_references(trace)
    IN  IF error.message # None
        THEN [state |-> "failed", error |-> error, trace |-> EmptyTrace]
        ELSE [state |-> "loaded", error |-> NoError, trace |-> trace]

NoPayload == [origin |-> None, text |-> trace_to_json(EmptyTrace), source |-> EmptyTrace]

NotLoaded == [state |-> None, error |-> NoError, trace |-> EmptyTrace]

\* documents that were not written by trace_to_json: one node, and edges
\* between it and ids the document has no node for
FileEdges ==
    {<<>>, <<Edge(IdOf(1), IdOf(1))>>, <<Edge(IdOf(1), IdOf(2))>>,
     <<Edge(IdOf(3), IdOf(1))>>, <<Edge(IdOf(1), IdOf(1)), Edge(IdOf(2), IdOf(3))>>}

FileDocs ==
    {trace_to_json(TraceGraph(add_node(EmptyMap, Node(IdOf(1), 0, <<"n">>, "custom", None, 0)),
                              es, 0)) : es \in FileEdges}

\* span.input(**fields) inside an open Span of user code
PayloadFields == {[x |-> PyTuple], [x |-> "1"]}

SpanInputOp(u, fields) ==
    /\ pc[u] = "idle"
    /\ stack[u] # <<>>
    /\ Top(stack[u]).kind = "span"
    /\ nodes[Top(stack[u]).node].input_data = EmptyMap
    /\ nodes' = Span_input(nodes, Top(stack[u]).node, fields)
    /\ UNCHANGED <<edges, _sequence_counter, op, seqVars, httpVars, auxVars>>

\* text = trace_to_json(trace)
TraceToJsonOp ==
    /\ payload.origin = None
    /\ LET trace == TraceGraph(nodes, edges, _sequence_counter)
       IN  payload' = [origin |-> "trace_to_json", text |-> trace_to_json(trace),
                       source |-> trace]
    /\ UNCHANGED <<graphVars, op, seqVars, httpVars, loaded, propVars, cfgVars>>

\* a document read from a file, as load_trace_json hands it to trace_from_json
FilePayloads == {[origin |-> "file", text |-> doc, source |-> EmptyTrace] : doc \in FileDocs}

\* trace_from_json(text)
TraceFromJsonOp ==
    /\ payload.origin # None
    /\ loaded.state = None
    /\ loaded' = trace_from_json(payload.text)
    /\ UNCHANGED <<graphVars, op, seqVars, httpVars, payload, propVars, cfgVars>>

(***************************************************************************)
(* context.py used directly: push / reset / clear_context in correctly     *)
(* nested pairs, propagate_context, and units started from a unit.  The    *)
(* code of a unit runs in the unit's own context, except inside a call of  *)
(* the wrapped callable, where it runs in the copied context.              *)
(***************************************************************************)
TraceValues == {"T1", "T2"}

NodeValues == {IdOf(1)}

Snapshot(c) == [trace |-> _current_trace[c], node |-> _current_node[c]]

NotWrapped ==
    [made |-> FALSE, captured |-> [trace |-> None, node |-> None],
     entered_by |-> None, runs |-> 0,
     seen |-> [trace |-> None, node |-> None],
     invoker_before |-> [trace |-> None, node |-> None]]

\* the context the code of unit u runs in
ContextOf(u) == IF wrapped.entered_by = u THEN "copied" ELSE u

Running(u) == started[u] # None

TotalFrames == Len(stack["u1"]) + Len(stack["u2"]) + Len(stack["copied"])

\* token = push_current_trace(trace)
PushTraceOp(u, trace) ==
    /\ Running(u)
    /\ TotalFrames < MaxFrames
    /\ LET c == ContextOf(u)
           pushed == push_current_trace(get_current_trace(c), trace)
       IN  /\ _current_trace' = [_current_trace EXCEPT ![c] = pushed.slot]
           /\ stack' = [stack EXCEPT ![c] =
                           Append(@, Frame("push_trace", None, pushed.token,
                                           get_current_trace(c)))]
    /\ UNCHANGED <<graphVars, op, seqVars, _current_node, pc, call, hist, installed, tracer,
                   excluded_seen, auxVars>>

\* token = push_current_node(node)
PushNodeOp(u, node) ==
    /\ Running(u)
    /\ TotalFrames < MaxFrames
    /\ LET c == ContextOf(u)
           pushed == push_current_node(get_current_node(c), node)
       IN  /\ _current_node' = [_current_node EXCEPT ![c] = pushed.slot]
           /\ stack' = [stack EXCEPT ![c] =
                           Append(@, Frame("push_node", None, pushed.token,
                                           get_current_node(c)))]
    /\ UNCHANGED <<graphVars, op, seqVars, _current_trace, pc, call, hist, installed, tracer,
                   excluded_seen, auxVars>>

\* reset_current_trace(token), with the token of the innermost push not yet
\* reset
ResetTraceOp(u) ==
    /\ Running(u)
    /\ LET c == ContextOf(u)
       IN  /\ stack[c] # <<>>
           /\ Top(stack[c]).kind = "push_trace"
           /\ _current_trace' =
                  [_current_trace EXCEPT
                      ![c] = reset_current_trace(get_current_trace(c), Top(stack[c]).token)]
           /\ stack' = [stack EXCEPT ![c] = Pop(@)]
    /\ op' = [name |-> "reset_current_trace", error |-> None]
    /\ UNCHANGED <<graphVars, seqVars, _current_node, pc, call, hist, installed, tracer,
                   excluded_seen, auxVars>>

\* reset_current_node(token), likewise
ResetNodeOp(u) ==
    /\ Running(u)
    /\ LET c == ContextOf(u)
       IN  /\ stack[c] # <<>>
           /\ Top(stack[c]).kind = "push_node"
           /\ _current_node' =
                  [_current_node EXCEPT
                      ![c] = reset_current_node(get_current_node(c), Top(stack[c]).token)]
           /\ stack' = [stack EXCEPT ![c] = Pop(@)]
    /\ op' = [name |-> "reset_current_node", error |-> None]
    /\ UNCHANGED <<graphVars, seqVars, _current_trace, pc, call, hist, installed, tracer,
                   excluded_seen, auxVars>>

\* clear_context(): both slots set to None; the code that calls it holds no
\* token of its own
ClearContextOp(u) ==
    /\ Running(u)
    /\ stack[ContextOf(u)] = <<>>
    /\ _current_trace' = [_current_trace EXCEPT ![ContextOf(u)] = None]
    /\ _current_node' = [_current_node EXCEPT ![ContextOf(u)] = None]
    /\ UNCHANGED <<graphVars, op, seqVars, stack, pc, call, hist, installed, tracer,
                   excluded_seen, auxVars>>

\* threading.Thread(target=...).start() in unit u: the thread runs in a new,
\* empty context, where both variables have their default
SpawnThreadOp(u, v) ==
    /\ Running(u)
    /\ started[v] = None
    /\ started' = [started EXCEPT ![v] = "thread"]
    /\ _current_trace' = [_current_trace EXCEPT ![v] = None]
    /\ _current_node' = [_current_node EXCEPT ![v] = None]
    /\ UNCHANGED <<graphVars, op, seqVars, stack, pc, call, hist, installed, tracer,
                   excluded_seen, jsonVars, wrapped, cfgVars>>

\* asyncio.create_task(...) in unit u, the task never awaited: a task runs in
\* a copy of the context it was created in
SpawnTaskOp(u, v) ==
    /\ Running(u)
    /\ started[v] = None
    /\ started' = [started EXCEPT ![v] = "task"]
    /\ _current_trace' = [_current_trace EXCEPT ![v] = get_current_trace(ContextOf(u))]
    /\ _current_node' = [_current_node EXCEPT ![v] = get_current_node(ContextOf(u))]
    /\ UNCHANGED <<graphVars, op, seqVars, stack, pc, call, hist, installed, tracer,
                   excluded_seen, jsonVars, wrapped, cfgVars>>

\* wrapped = propagate_context(func): copied_context = contextvars.copy_context()
PropagateContextOp(u) ==
    /\ Running(u)
    /\ wrapped.entered_by # u
    /\ ~wrapped.made
    /\ _current_trace' = [_current_trace EXCEPT !["copied"] = get_current_trace(u)]
    /\ _current_node' = [_current_node EXCEPT !["copied"] = get_current_node(u)]
    /\ wrapped' = [wrapped EXCEPT !.made = TRUE, !.captured = Snapshot(u)]
    /\ UNCHANGED <<graphVars, op, seqVars, stack, pc, call, hist, installed, tracer,
                   excluded_seen, jsonVars, started, cfgVars>>

\* wrapped(): copied_context.run(func, ...); func starts, in the copied
\* context, and reads the two slots.  The calls do not overlap (Context.run
\* refuses a context that is already entered).
WrappedCallOp(v) ==
    /\ Running(v)
    /\ wrapped.made
    /\ wrapped.entered_by = None
    /\ wrapped.runs < MaxRuns
    /\ wrapped' = [wrapped EXCEPT !.entered_by = v, !.runs = @ + 1,
                                !.seen = Snapshot("copied"),
                                !.invoker_before = Snapshot(v)]
    /\ UNCHANGED <<graphVars, op, seqVars, httpVars, jsonVars, started, cfgVars>>

\* func returns and copied_context.run with it
WrappedReturnOp(v) ==
    /\ wrapped.entered_by = v
    /\ wrapped' = [wrapped EXCEPT !.entered_by = None,
                                !.invoker_before = NotWrapped.invoker_before]
    /\ UNCHANGED <<graphVars, op, seqVars, httpVars, jsonVars, started, cfgVars>>

(***************************************************************************)
(* config.py: the global Settings and configure                            *)
(***************************************************************************)
\* a storage backend object: its class, its path (FileStore) and which
\* instance it is
Backend(kind, path, instance) == [kind |-> kind, path |-> path, instance |-> instance]

\* Settings(): the defaults, storage a MemoryStore made by default_factory
Settings ==
    [capture_level |-> "full", auto_instrument |-> <<>>,
     storage |-> Backend("MemoryStore", None, 0), redact_patterns |-> <<>>,
     max_output_size |-> None]

\* the values configure is called with.  None and [] give the same list
\* (`list(x or [])`) and are both the empty sequence.
CaptureLevels == {"minimal", "full"}

AutoInstrumentArgs == {<<>>, <<"requests">>}

\* storage: shorthand strings, and a StorageBackend instance
UserBackend == Backend("UserStore", None, 0)

StorageStrings == {"memory", "file://traces", "redis://host", "MEMORY"}

RedactArgs == {<<>>, <<"secret">>}

MaxOutputArgs == {None, "1024"}

\* storage.startswith("file://") and storage.removeprefix("file://")
startswith_file(storage) == storage = "file://traces"

removeprefix_file(storage) == IF storage = "file://traces" THEN "traces" ELSE storage

_resolve_storage_defaulting_to_memory(storage, is_str, n) ==
    IF ~is_str THEN [error |-> None, storage |-> UserBackend, made |-> 0]
    ELSE IF startswith_file(storage)
    THEN [error |-> None, storage |-> Backend("FileStore", removeprefix_file(storage), n),
          made |-> 1]
    ELSE [error |-> None, storage |-> Backend("MemoryStore", None, n), made |-> 1]

\* _resolve_storage(storage): the backend it returns, or the ValueError it
\* raises.  is_str: isinstance(storage, str); n: the next instance.
_resolve_storage(storage, is_str, n) ==
    IF ~is_str THEN [error |-> None, storage |-> UserBackend, made |-> 0]
    ELSE IF storage = "memory"
    THEN [error |-> None, storage |-> Backend("MemoryStore", None, n), made |-> 1]
    ELSE IF startswith_file(storage)
    THEN [error |-> None, storage |-> Backend("FileStore", removeprefix_file(storage), n),
          made |-> 1]
    ELSE [error |-> "ValueError", storage |-> UserBackend, made |-> 0]

NotConfigured ==
    [called |-> FALSE, error |-> None, is_str |-> TRUE, storage |-> "memory",
     capture_level |-> "full", auto_instrument |-> <<>>, redact_patterns |-> <<>>,
     max_output_size |-> None, before |-> Settings]

\* configure that assigns nothing when _resolve_storage raises
ConfigureOp_all_or_nothing(capture_level, auto_instrument, storage, is_str, redact_patterns, max_output_size) ==
    LET first == [_settings EXCEPT !.capture_level = capture_level,
                                   !.auto_instrument = auto_instrument]
        r == _resolve_storage(storage, is_str, stores + 1)
    IN  /\ stores + r.made <= MaxStores
        /\ stores' = stores + r.made
        /\ _settings' =
               IF r.error # None THEN _settings
               ELSE [first EXCEPT !.storage = r.storage,
                                  !.redact_patterns = redact_patterns,
                                  !.max_output_size = max_output_size]
        /\ configured' =
               [called |-> TRUE, error |-> r.error, is_str |-> is_str, storage |-> storage,
                capture_level |-> capture_level, auto_instrument |-> auto_instrument,
                redact_patterns |-> redact_patterns, max_output_size |-> max_output_size,
                before |-> _settings]
        /\ UNCHANGED <<graphVars, op, seqVars, httpVars, jsonVars, propVars>>

\* configure(capture_level, auto_instrument, storage, redact_patterns,
\* max_output_size): the assignments in the order of the code; the exception
\* of _resolve_storage ends the call at the third
ConfigureOp(capture_level, auto_instrument, storage, is_str, redact_patterns, max_output_size) ==
    LET first == [_settings EXCEPT !.capture_level = capture_level,
                                   !.auto_instrument = auto_instrument]
        r == _resolve_storage(storage, is_str, stores + 1)
    IN  /\ stores + r.made <= MaxStores
        /\ stores' = stores + r.made
        /\ _settings' =
               IF r.error # None THEN first
               ELSE [first EXCEPT !.storage = r.storage,
                                  !.redact_patterns = redact_patterns,
                                  !.max_output_size = max_output_size]
        /\ configured' =
               [called |-> TRUE, error |-> r.error, is_str |-> is_str, storage |-> storage,
                capture_level |-> capture_level, auto_instrument |-> auto_instrument,
                redact_patterns |-> redact_patterns, max_output_size |-> max_output_size,
                before |-> _settings]
        /\ UNCHANGED <<graphVars, op, seqVars, httpVars, jsonVars, propVars>>

(***************************************************************************)
(* Initial states and specifications.                                      *)
(***************************************************************************)
InitGraph ==
    /\ nodes = EmptyMap
    /\ edges = <<>>
    /\ _sequence_counter = 0
    /\ op = [name |-> None, error |-> None]

InitSeq ==
    /\ tpc = [t \in Threads |-> "idle"]
    /\ value = [t \in Threads |-> 0]
    /\ tmp = [t \in Threads |-> 0]
    /\ allocated = <<>>

InitUnits ==
    /\ _current_trace = [c \in Contexts |-> None]
    /\ _current_node = [c \in Contexts |-> None]
    /\ stack = [c \in Contexts |-> <<>>]
    /\ started = [u \in Units |-> IF u = "u1" THEN "main" ELSE None]
    /\ wrapped = NotWrapped
    /\ pc = [u \in Units |-> "idle"]
    /\ call = [u \in Units |-> NoCall]
    /\ hist = EmptyMap
    /\ tracer = [state |-> "none", end_time |-> None, token |-> NoToken, saved |-> 0]
    /\ excluded_seen = FALSE

InitJson ==
    /\ payload = NoPayload
    /\ loaded = NotLoaded
    /\ _settings = Settings
    /\ stores = 0
    /\ configured = NotConfigured

vars == <<nodes, edges, _sequence_counter, op, tpc, value, tmp, allocated,
          _current_trace, _current_node, stack, pc, call, hist, installed, tracer,
          excluded_seen, payload, loaded, started, wrapped, _settings, stores,
          configured>>

Init == InitGraph /\ InitSeq /\ InitUnits /\ InitJson /\ installed = <<>>

NextSeq == \E t \in Threads : SeqRead(t) \/ SeqLoad(t) \/ SeqStore(t) \/ SeqReturn(t)

\* Threads allocating sequence numbers on one shared trace.
SpecSeq == Init /\ [][NextSeq]_vars

NextGraph ==
    \/ \E node \in HandNodes : AddNodeOp(node)
    \/ \E edge \in EdgeArgs : AddEdgeOp(edge)
    \/ GraphSpanOpen("u1")
    \/ \E exc \in {None, "ConnectionError"} : SpanClose("u1", exc)

\* A hand-built TraceGraph used directly and through Spans given the trace.
SpecGraph == Init /\ [][NextGraph]_vars

\* the units whose code uses the slots: the first unit, and whichever unit is
\* inside the wrapped callable
UsesContext(u) == u = "u1" \/ wrapped.entered_by = u

NextCtx ==
    \/ \E u \in Units, trace \in TraceValues : UsesContext(u) /\ PushTraceOp(u, trace)
    \/ \E u \in Units, node \in NodeValues : UsesContext(u) /\ PushNodeOp(u, node)
    \/ \E u \in Units : UsesContext(u) /\ ResetTraceOp(u)
    \/ \E u \in Units : UsesContext(u) /\ ResetNodeOp(u)
    \/ \E u \in Units : wrapped.entered_by = u /\ ClearContextOp(u)
    \/ SpawnThreadOp("u1", "u2")
    \/ SpawnTaskOp("u1", "u2")
    \/ PropagateContextOp("u1")
    \/ WrappedCallOp("u2")
    \/ WrappedReturnOp("u2")

\* Units that push and reset the context slots directly, start other units
\* and hand them a callable wrapped by propagate_context.
SpecCtx == Init /\ [][NextCtx]_vars

NextConfig ==
    \E capture_level \in CaptureLevels, auto_instrument \in AutoInstrumentArgs,
       redact_patterns \in RedactArgs, max_output_size \in MaxOutputArgs :
        \/ \E storage \in StorageStrings :
               ConfigureOp(capture_level, auto_instrument, storage, TRUE, redact_patterns,
                           max_output_size)
        \/ ConfigureOp(capture_level, auto_instrument, "", FALSE, redact_patterns,
                       max_output_size)

\* A program that calls configure again and again.
SpecConfig == Init /\ [][NextConfig]_vars

\* A trace is built, by hand (edges leaving the first node) and through
\* Spans, then written as JSON and read back; or a JSON document from
\* elsewhere is read.
NextJson ==
    \/ \E node \in HandNodes : payload.origin = None /\ AddNodeOp(node)
    \/ \E edge \in EdgeArgs :
           payload.origin = None /\ edge.source_id = IdOf(1) /\ AddEdgeOp(edge)
    \/ payload.origin = None /\ GraphSpanOpen("u1")
    \/ payload.origin = None /\ SpanClose("u1", None)
    \/ \E fields \in PayloadFields : payload.origin = None /\ SpanInputOp("u1", fields)
    \/ TraceToJsonOp
    \/ TraceFromJsonOp

InitFromFile ==
    /\ InitGraph /\ InitSeq /\ InitUnits /\ installed = <<>>
    /\ payload \in {NoPayload} \cup FilePayloads
    /\ loaded = NotLoaded
    /\ _settings = Settings
    /\ stores = 0
    /\ configured = NotConfigured

SpecJson == InitFromFile /\ [][NextJson]_vars

\* instrument_requests(url_filter=..., exclude_urls=...) has been called once
InitHttp ==
    InitGraph /\ InitSeq /\ InitUnits /\ InitJson /\ installed \in {<<cfg>> : cfg \in Configs}

NextHttp ==
    \E u \in {"u1"} :
        \/ TracerStart(u)
        \/ \E exc \in {None, "ConnectionError"} : TracerExit(u, exc)
        \/ SpanOpen(u, FALSE)
        \/ \E exc \in {None} \cup Exceptions : SpanClose(u, exc)
        \/ \E method \in Methods, url \in Urls : RequestStart(u, method, url)
        \/ PatchedRequestEnter(u)
        \/ \E outcome \in Outcomes : OriginalRequest(u, outcome)
        \/ PatchedRequestExit(u)
        \/ CallerResumes(u)

\* A unit that traces and makes HTTP requests through the installed wrapper.
SpecHttp == InitHttp /\ [][NextHttp]_vars

\* A unit that traces, opens Spans and makes HTTP requests through the
\* asynchronous wrapper, statement by statement.
InitStatus ==
    /\ InitGraph /\ InitSeq /\ InitUnits /\ InitJson
    /\ installed = <<Config(None, <<"skip">>)>>

NextStatus ==
    \E u \in {"u1"} :
        \/ TracerStart(u)
        \/ \E exc \in {None, "ConnectionError"} : TracerExit(u, exc)
        \/ SpanCreateOp(u)
        \/ SpanEnterOp(u)
        \/ \E status \in SetStatusArgs : SpanSetStatusOp(u, status)
        \/ \E exc \in {None} \cup Exceptions : SpanClose(u, exc)
        \/ \E method \in Methods, url \in Urls : RequestStart(u, method, url)
        \/ PatchedRequestEnter(u)
        \/ \E outcome \in AsyncOutcomes : OriginalRequest(u, outcome)
        \/ PatchedRequestRecord(u)
        \/ PatchedRequestSpanExit(u)
        \/ PatchedRequestPass(u)
        \/ CallerResumes(u)

SpecStatus == InitStatus /\ [][NextStatus]_vars

\* A program that calls instrument_requests any number of times, traces and
\* makes requests.
NextInstrument ==
    \/ \E cfg \in {Config(None, <<>>), Config(None, <<"skip">>)} : InstrumentRequestsOp(cfg)
    \/ TracerStart("u1")
    \/ TracerExit("u1", None)
    \/ \E url \in {"/skip", "/trace"} : RequestStart("u1", "get", url)
    \/ PatchedRequestEnter("u1")
    \/ \E outcome \in Outcomes : OriginalRequest("u1", outcome)
    \/ PatchedRequestExit("u1")
    \/ CallerResumes("u1")

SpecInstrument == Init /\ [][NextInstrument]_vars

\* Two flows (the second a thread or an asyncio task started by the first)
\* that open Spans on the same trace and make HTTP requests through the
\* wrapper, in every interleaving.
InitFlows ==
    /\ InitGraph /\ InitSeq /\ InitUnits /\ InitJson
    /\ installed = <<Config(None, <<>>)>>

NextFlows ==
    \/ TracerStart("u1")
    \/ TracerExit("u1", None)
    \/ SpawnThreadOp("u1", "u2")
    \/ SpawnTaskOp("u1", "u2")
    \/ \E u \in Units : Running(u) /\ SpanOpen(u, TRUE)
    \/ \E u \in Units, exc \in {None, "ConnectionError"} : Running(u) /\ SpanClose(u, exc)
    \/ \E u \in Units : Running(u) /\ RequestStart(u, "get", "/trace")
    \/ \E u \in Units : PatchedRequestEnter(u)
    \/ \E u \in Units, outcome \in {Returned("response"), Raised("ConnectionError")} :
           OriginalRequest(u, outcome)
    \/ \E u \in Units : PatchedRequestExit(u)
    \/ \E u \in Units : CallerResumes(u)

SpecFlows == InitFlows /\ [][NextFlows]_vars

\* instrument_requests called with a url_filter that returns None instead of
\* a string
FaultyConfigs ==
    {Config("returns_none", <<>>), Config("returns_none", <<"skip">>),
     Config("returns_none", <<"(", "token=">>)}

InitFaulty ==
    InitGraph /\ InitSeq /\ InitUnits /\ InitJson
        /\ installed \in {<<cfg>> : cfg \in FaultyConfigs}

\* The same unit, with a wrapper whose recording of the request can fail.
SpecFaulty == InitFaulty /\ [][NextHttp]_vars

(***************************************************************************)
(* Properties.                                                             *)
(***************************************************************************)
\* C1: the sequence numbers handed out on one trace are pairwise distinct and
\* strictly increasing in allocation order, whatever the interleaving of the
\* threads that call next_sequence_number.
C1_SequenceNumbersUnique ==
    \A i, j \in 1..Len(allocated) : i < j => allocated[i] < allocated[j]

\* C2: in every reachable state every edge of the trace has its source_id and
\* its target_id among the keys of trace.nodes.
C2_NoDanglingEdge ==
    \A i \in 1..Len(edges) :
        edges[i].source_id \in DOMAIN nodes /\ edges[i].target_id \in DOMAIN nodes

\* An edge between two distinct nodes is in the trace and a Span has been
\* opened and closed on the trace.
C2_Witness ==
    /\ Len(edges) >= 1
    /\ edges[1].source_id # edges[1].target_id
    /\ \E n \in DOMAIN hist : hist[n].closed

MissingEndpoint(edge) ==
    edge.source_id \notin DOMAIN nodes \/ edge.target_id \notin DOMAIN nodes

\* C3: add_edge(edge) with an endpoint that is not a key of trace.nodes fails
\* with an error and leaves nodes, edges and the sequence counter as they were.
C3_AddEdgeRejectsMissingEndpoint ==
    [][\A edge \in EdgeArgs :
          (AddEdgeOp(edge) /\ MissingEndpoint(edge)) =>
              /\ op'.error # None
              /\ nodes' = nodes
              /\ edges' = edges
              /\ _sequence_counter' = _sequence_counter]_vars

\* add_edge has just been refused for its target while the trace holds an edge.
C3_Witness ==
    /\ op.name = "add_edge"
    /\ op.error = "Unknown edge target node id"
    /\ Len(edges) = 1

\* C4: for every node of the trace, depth = 0 exactly when parent_id is None,
\* and otherwise parent_id is the id of a node of the trace whose depth is one
\* less.
C4_DepthMatchesParent ==
    \A n \in DOMAIN nodes :
        /\ nodes[n].depth = 0 <=> nodes[n].parent_id = None
        /\ nodes[n].parent_id # None =>
               /\ nodes[n].parent_id \in DOMAIN nodes
               /\ nodes[n].depth = nodes[nodes[n].parent_id].depth + 1

\* C5: once a Span whose scope raised has exited, its node is failed, has an
\* error and an end_time, and the unit's current node is what it was before
\* the Span was entered.
C5_RaisingScopeEndsFailed ==
    \A n \in DOMAIN hist :
        (hist[n].closed /\ hist[n].raised) =>
            /\ nodes[n].status = "failed"
            /\ nodes[n].error # None
            /\ nodes[n].end_time # None
            /\ hist[n].restored

CallReturned(u) == pc[u] = "return" /\ call[u].depth = 0

\* C6: an error raised by the wrapped request of a traced HTTP call reaches the
\* caller as that same error, and the node is failed with the error message
\* recorded.
C6_WorkErrorRecordedAndPropagated ==
    \A u \in Units :
        (CallReturned(u) /\ call[u].outcome.kind = "raise" /\ call[u].spans # <<>>) =>
            /\ call[u].result = call[u].outcome
            /\ \A i \in 1..Len(call[u].spans) :
                   LET node == nodes[call[u].spans[i]]
                   IN  /\ node.status = "failed"
                       /\ "error" \in DOMAIN node.output_data
                       /\ node.output_data["error"] = str(call[u].outcome.exc)

\* C7: every Span's node has as parent_id the node of the Span that enclosed it
\* when it was opened (None when none did), so Spans opened one after another
\* inside one Span all have that Span's node as parent, never a sibling.
C7_SiblingsShareParent ==
    \A n \in DOMAIN hist : nodes[n].parent_id = hist[n].enclosing

\* Two Spans were opened and closed one after the other inside a Span that is
\* still open; the first failed, the second completed.
C7_Witness ==
    \E e, a, b \in DOMAIN hist :
        /\ ~hist[e].closed
        /\ hist[a].closed /\ hist[a].enclosing = e /\ nodes[a].status = "failed"
        /\ hist[b].closed /\ hist[b].enclosing = e /\ nodes[b].status = "completed"
        /\ nodes[a].sequence_number < nodes[b].sequence_number
        /\ nodes[a].parent_id = e
        /\ nodes[b].parent_id = e

\* C8: a patched request made with no trace active creates no Span and adds no
\* node, calls the original request exactly once with the caller's method and
\* URL, and hands its result or its error to the caller unchanged.
C8_NoTraceNoSpan ==
    \A u \in Units :
        (CallReturned(u) /\ call[u].trace = None) =>
            /\ call[u].added = 0
            /\ call[u].spans = <<>>
            /\ call[u].orig_calls = <<[method |-> call[u].method, url |-> call[u].url]>>
            /\ call[u].result = call[u].outcome

\* A request made after the trace was closed has raised to its caller; the
\* closed trace still holds its nodes.
C8_Witness ==
    \E u \in Units :
        /\ CallReturned(u)
        /\ call[u].trace = None
        /\ call[u].outcome.kind = "raise"
        /\ tracer.state = "closed"
        /\ DOMAIN nodes # {}

\* the URL the wrapper works with: the caller's, rewritten by url_filter unless
\* there is none or it raises
FilteredUrl(cfg, url) == IF cfg.url_filter = "strip_query" THEN strip_query(url) ELSE url

\* some pattern of exclude_urls compiles and is found in the URL
ExcludedBy(cfg, url) ==
    \E i \in 1..Len(cfg.exclude_urls) : re_search(cfg.exclude_urls[i], url) = "match"

\* the node of a traced request that has returned normally, but for status_code
ReturnedNodeRecorded(u, node, cfg) ==
    /\ node.input_data =
           [method |-> upper(call[u].method), url |-> FilteredUrl(cfg, call[u].url)]
    /\ "duration_ms" \in DOMAIN node.output_data
    /\ node.status \in TerminalStatus
    /\ _current_node[u] = call[u].ctx_before

ExclusionDecides(u, cfg, url) ==
    /\ ExcludedBy(cfg, url) =>
           /\ call[u].added = 0
           /\ call[u].spans = <<>>
           /\ call[u].orig_calls = <<[method |-> call[u].method, url |-> call[u].url]>>
    /\ ~ExcludedBy(cfg, url) => call[u].added = 1

C11_RecordingErrorContained ==
    \A u \in Units :
        (CallReturned(u) /\ call[u].trace # None) =>
            /\ Len(call[u].orig_calls) = 1
            /\ call[u].result = call[u].outcome

\* the fields of a TraceGraph, without its private attribute
FieldsOf(trace) ==
    [schema_version |-> trace.schema_version, trace_id |-> trace.trace_id,
     nodes |-> trace.nodes, edges |-> trace.edges]

\* C12: a trace read back from its own JSON is equal, field for field, to the
\* trace that was written: decode(encode(T)) == T.
C12_RoundTrip ==
    (loaded.state # None /\ payload.origin = "trace_to_json") =>
        /\ loaded.state = "loaded"
        /\ FieldsOf(loaded.trace) = FieldsOf(payload.source)

\* C13: reading a document whose edge list has an edge with a source_id or a
\* target_id that is no key of its nodes fails with an error that names a
\* missing id, and no TraceGraph is produced.
C13_DanglingEdgeFailsLoad ==
    LET doc == payload.text
        endpoints == {doc.edges[i].source_id[2] : i \in 1..Len(doc.edges)}
                         \cup {doc.edges[i].target_id[2] : i \in 1..Len(doc.edges)}
        missing == endpoints \ DOMAIN doc.nodes
    IN  (loaded.state # None /\ missing # {}) =>
            /\ loaded.state = "failed"
            /\ loaded.error.id \in missing
            /\ loaded.trace = EmptyTrace

\* A document whose second edge has both endpoints missing was refused, and
\* the error names the source of that edge.
C13_Witness ==
    /\ loaded.state = "failed"
    /\ Len(payload.text.edges) = 2
    /\ loaded.error = [message |-> "Edge source_id not found in nodes", id |-> IdOf(2)]

\* C14: in correctly nested push / reset pairs on either slot, each reset
\* leaves the slot holding the value it held immediately before the matching
\* push.
C14_ResetRestoresPriorValue ==
    [][\A u \in Units :
          /\ ResetTraceOp(u) =>
                 _current_trace'[ContextOf(u)] = Top(stack[ContextOf(u)]).ctx_before
          /\ ResetNodeOp(u) =>
                 _current_node'[ContextOf(u)] = Top(stack[ContextOf(u)]).ctx_before]_vars

\* A reset has just put back a trace that is not None: the unit had pushed T1,
\* then T2, and reset the inner push.
C14_Witness ==
    /\ op.name = "reset_current_trace"
    /\ Len(stack["u1"]) = 1
    /\ stack["u1"][1].kind = "push_trace"
    /\ _current_trace["u1"] = "T1"

\* C15: the wrapped callable, whenever it is called, sees the trace and the
\* node that were current in the wrapping unit when propagate_context was
\* called; the calling unit's own context is not changed by the call.
C15_WrappedSeesCapturedContext ==
    /\ wrapped.runs > 0 => wrapped.seen = wrapped.captured
    /\ \A v \in Units : wrapped.entered_by = v => Snapshot(v) = wrapped.invoker_before

\* C16: a unit started from a unit with an open trace, without
\* propagate_context, starts with get_current_trace() and get_current_node()
\* both None.
C16_SpawnedUnitStartsEmpty ==
    \A v \in Units :
        (started[v] \in {"thread", "task"} /\ stack[v] = <<>>) =>
            /\ get_current_trace(v) = None
            /\ get_current_node(v) = None

\* what holds of the Tracer's trace in every state: nothing is saved before
\* the root Span has exited; once it has, the trace was saved exactly once,
\* its end_time is stamped, the root node is final and the current trace is
\* what it was before the trace was started
TraceSavedOnceWhenClosed ==
    /\ tracer.state # "closed" => tracer.saved = 0
    /\ tracer.state = "closed" =>
           /\ tracer.saved = 1
           /\ tracer.end_time # None
           /\ \A n \in DOMAIN nodes :
                  nodes[n].name = <<"root">> =>
                      nodes[n].status \in TerminalStatus /\ nodes[n].end_time # None
           /\ \A u \in Units : stack[u] = <<>> => get_current_trace(u) = tracer.token.old_value

\* C17: the trace started by the Tracer is saved exactly once, only after the
\* root Span has exited and end_time is stamped, with the current trace back
\* at its value before start_trace; a closed trace never becomes open again.
C17_SavedOnceAfterRootExit ==
    /\ []TraceSavedOnceWhenClosed
    /\ [][tracer.state = "closed" => tracer'.state = "closed"]_vars

\* The trace was closed by a failing root scope after a traced request, and
\* saved.
C17_Witness ==
    /\ tracer.state = "closed"
    /\ tracer.saved = 1
    /\ \E n \in DOMAIN nodes : nodes[n].name = <<"root">> /\ nodes[n].status = "failed"
    /\ \E n \in DOMAIN nodes : nodes[n].node_type = "http_request"

\* the string is neither "memory" nor prefixed with "file://"
UnsupportedStorage(is_str, storage) ==
    is_str /\ storage # "memory" /\ ~startswith_file(storage)

\* C18: configure(storage=s) with a string that is neither "memory" nor
\* prefixed with "file://" fails with ValueError, and the configured storage
\* backend is still the one in place before the call.
C18_UnsupportedStorageRejected ==
    (configured.called /\ UnsupportedStorage(configured.is_str, configured.storage)) =>
        /\ configured.error = "ValueError"
        /\ _settings.storage = configured.before.storage

\* configure("redis://host") has failed after an earlier call had installed a
\* FileStore, which is still the configured storage.
C18_Witness ==
    /\ configured.called
    /\ configured.storage = "redis://host"
    /\ configured.error = "ValueError"
    /\ _settings.storage.kind = "FileStore"

\* C19: when the wrapped request of a traced HTTP call is cancelled while it
\* is awaited, the Span's exit still runs, the node ends cancelled or failed
\* (never completed), the current node is restored and the cancellation
\* reaches the caller.
C19_CancelledRequestNotCompleted ==
    \A u \in Units :
        (CallReturned(u) /\ call[u].outcome = Raised("CancelledError")
                        /\ call[u].spans # <<>>) =>
            /\ call[u].result = Raised("CancelledError")
            /\ _current_node[u] = call[u].ctx_before
            /\ \A i \in 1..Len(call[u].spans) :
                   /\ nodes[call[u].spans[i]].end_time # None
                   /\ nodes[call[u].spans[i]].status \in {"cancelled", "failed"}

StatusRank(status) ==
    CASE status = "pending" -> 0
      [] status = "running" -> 1
      [] OTHER -> 2

\* the scope of node n, if it is still on a unit's stack
FramesOf(n) ==
    {f \in UNION {{stack[u][i] : i \in 1..Len(stack[u])} : u \in Units} : f.node = n}

StatusNeverMovesBack ==
    \A n \in DOMAIN nodes :
        /\ n \in DOMAIN nodes'
        /\ StatusRank(nodes'[n].status) >= StatusRank(nodes[n].status)

\* pending until entered, terminal from exit on, and in between running
\* unless set_status has already put a terminal status
StatusFollowsScope ==
    \A n \in DOMAIN hist :
        IF hist[n].closed THEN nodes[n].status \in TerminalStatus
        ELSE \A f \in FramesOf(n) :
                IF f.kind = "new" THEN nodes[n].status = "pending"
                ELSE \/ nodes[n].status = "running"
                     \/ f.overridden /\ nodes[n].status \in TerminalStatus

ClosedByStep == {n \in DOMAIN hist : ~hist[n].closed /\ hist'[n].closed}

\* C21: when a Span's scope is left without an error the node ends completed,
\* or with the status set_status put inside the scope; when it is left by an
\* error the node ends failed whatever was set before.
C21_FinalStatusAtExit ==
    [][\A n \in ClosedByStep :
          \A f \in FramesOf(n) :
              IF hist'[n].raised THEN nodes'[n].status = "failed"
              ELSE IF f.overridden THEN nodes'[n].status = nodes[n].status
              ELSE nodes'[n].status = "completed"]_vars

\* C22: with two flows opening and closing Spans on one trace, the node one
\* flow pushed as current is never what get_current_node() returns in the
\* other flow, and every Span exit leaves its flow's current node as it was
\* before the Span was entered.
C22_FlowsDoNotShareCurrentNode ==
    /\ \A n \in DOMAIN hist, v \in Units :
           (Running(v) /\ v # hist[n].unit) => get_current_node(v) # n
    /\ \A n \in DOMAIN hist : hist[n].closed => hist[n].restored

\* C23: a later call of the wrapped callable starts again from the values
\* captured by propagate_context, whatever an earlier call pushed or cleared.
C23_LaterCallSeesCapturedValues ==
    wrapped.runs > 1 => wrapped.seen = wrapped.captured

\* C24: the encoded trace has no sequence counter, and a decoded TraceGraph
\* has its counter at 0: its first next_sequence_number() returns 0 whatever
\* sequence numbers the decoded nodes carry.
C24_DecodedCounterStartsAtZero ==
    /\ "_sequence_counter" \notin DOMAIN payload.text
    /\ loaded.state = "loaded" =>
           /\ loaded.trace._sequence_counter = 0
           /\ next_sequence_number(loaded.trace._sequence_counter).value = 0

\* a trace whose counter had advanced was written and read back, and one of
\* its decoded nodes already carries the sequence number 0
C24_Witness ==
    /\ loaded.state = "loaded"
    /\ payload.origin = "trace_to_json"
    /\ payload.source._sequence_counter > 0
    /\ \E k \in DOMAIN loaded.trace.nodes : loaded.trace.nodes[k].sequence_number = 0

\* C25: add_node(node) changes only nodes[node.id]: a new id adds one entry,
\* an id already present has its entry replaced and the count stays; every
\* other node, the edge list and the sequence counter stay as they were.
C25_AddNodeChangesOneEntry ==
    [][\A node \in HandNodes :
          AddNodeOp(node) =>
              /\ nodes'[node.id] = node
              /\ DOMAIN nodes' = DOMAIN nodes \cup {node.id}
              /\ Cardinality(DOMAIN nodes') =
                     Cardinality(DOMAIN nodes) + (IF node.id \in DOMAIN nodes THEN 0 ELSE 1)
              /\ \A k \in DOMAIN nodes \ {node.id} : nodes'[k] = nodes[k]
              /\ edges' = edges
              /\ _sequence_counter' = _sequence_counter]_vars

\* the node a Span had inserted has been replaced by a hand-built node with
\* the same id, while an edge and an advanced counter were there to keep
C25_Witness ==
    /\ op.name = "add_node"
    /\ \E n \in DOMAIN hist : nodes[n].name = <<"n">>
    /\ edges # <<>>
    /\ _sequence_counter > 0

\* C26: when configure raises for an unsupported storage string,
\* capture_level and auto_instrument hold the new arguments while storage,
\* redact_patterns and max_output_size are those from before the call.
C26_PartialUpdateOnError ==
    (configured.called /\ configured.error = "ValueError") =>
        /\ _settings.capture_level = configured.capture_level
        /\ _settings.auto_instrument = configured.auto_instrument
        /\ _settings.storage = configured.before.storage
        /\ _settings.redact_patterns = configured.before.redact_patterns
        /\ _settings.max_output_size = configured.before.max_output_size

\* a failed call that changed capture_level and auto_instrument and would
\* have changed the three other settings
C26_Witness ==
    /\ configured.called /\ configured.error = "ValueError"
    /\ _settings.capture_level # configured.before.capture_level
    /\ _settings.auto_instrument # configured.before.auto_instrument
    /\ configured.redact_patterns # _settings.redact_patterns
    /\ configured.max_output_size # _settings.max_output_size
    /\ _settings.storage.kind = "FileStore"

\* the request's URL is excluded by none of the installed wrappers
TracedByAll(u) ==
    \A i \in 1..Len(installed) : ~ExcludedBy(installed[i], call[u].url)

\* C27: after k calls of instrument_requests, one request under an active
\* trace (its URL excluded by none of them) adds k http_request nodes, each
\* the parent of the next, and the original request is issued exactly once.
C27_EachInstallAddsALayer ==
    \A u \in Units :
        (CallReturned(u) /\ call[u].trace # None /\ TracedByAll(u)) =>
            LET spans == call[u].spans
            IN  /\ Len(spans) = Len(installed)
                /\ call[u].added = Len(installed)
                /\ \A i \in 1..Len(spans) :
                       /\ nodes[spans[i]].node_type = "http_request"
                       /\ nodes[spans[i]].parent_id =
                              IF i = 1 THEN call[u].ctx_before ELSE spans[i - 1]
                /\ Len(call[u].orig_calls) = 1

\* instrument_requests was called twice and a traced request has come back
\* with two nodes added
C27_Witness ==
    /\ Len(installed) = 2
    /\ CallReturned("u1")
    /\ call["u1"].trace # None
    /\ TracedByAll("u1")
    /\ call["u1"].added = 2

====
